---------------------------- MODULE Spec2Model ----------------------------
(***************************************************************************)
(* A model of package hctx (client/hctx/hctx.go): the configuration store  *)
(* (GetConfig / SetConfig / InitConfig over a file system shared by        *)
(* several processes), the lazily constructed logger (GetLogger, guarded   *)
(* by a sync.Once) and the bootstrap of the local sqlite datastore         *)
(* (OpenLocalSqliteDb).                                                    *)
(*                                                                         *)
(* Go values are modelled as follows.  A string is a sequence of           *)
(* characters, each character a TLA+ string; "xFF" stands for a byte that  *)
(* is not valid UTF-8 and "uFFFD" for the Unicode replacement character.   *)
(* A slice is a record [isNil, elems], so that a nil slice and an empty    *)
(* one are different values, as they are for encoding/json.  The bytes of  *)
(* a file are a sequence of JSON lexemes.                                  *)
(***************************************************************************)
EXTENDS Integers, Sequences, FiniteSets, TLC

(***************************************************************************)
(* Bounds of the model.                                                    *)
(***************************************************************************)
\* processes that share the configuration directory
NumProcs == 2
\* calls (SetConfig, GetConfig, InitConfig) started in one behaviour of the
\* concurrent processes
MaxCalls == 2
\* calls started in one behaviour of a single process
MaxSeqCalls == 3
\* crashes of a process in the middle of a call in one behaviour
MaxCrashes == 1
\* write system calls one os.WriteFile takes to write its data
WriteChunks == 2
\* goroutines that call GetLogger, and calls started in one behaviour
NumThreads == 2
MaxLoggerCalls == 3
\* calls of OpenLocalSqliteDb in one behaviour
MaxOpens == 2
\* frames that context.WithValue allocates
MaxFrames == 2

(***************************************************************************)
(* ClientConfig, hctx.go:176-207.                                          *)
(***************************************************************************)
NilSlice == [isNil |-> TRUE, elems |-> <<>>]

MakeSlice(s) == [isNil |-> FALSE, elems |-> s]

\* len(x) of a slice
SliceLen(sl) == Len(sl.elems)

\* CustomColumnDefinition{}
CustomColumnDefinition(name, command) ==
    [ColumnName |-> name, ColumnCommand |-> command]

\* ClientConfig{}: the zero value of the struct
ZeroConfig ==
    [UserSecret |-> <<>>,
     IsEnabled |-> FALSE,
     DeviceId |-> <<>>,
     LastSavedHistoryLine |-> <<>>,
     HaveMissedUploads |-> FALSE,
     MissedUploadTimestamp |-> 0,
     HaveCompletedInitialImport |-> FALSE,
     ControlRSearchEnabled |-> FALSE,
     DisplayedColumns |-> NilSlice,
     CustomColumns |-> NilSlice,
     IsOffline |-> FALSE,
     FilterDuplicateCommands |-> FALSE,
     TimestampFormat |-> <<>>]

\* the JSON name of each field, in the order of the struct's declaration
FieldKeys ==
    <<"user_secret", "is_enabled", "device_id", "last_saved_history_line",
      "have_missed_uploads", "missed_upload_timestamp",
      "have_completed_initial_import", "enable_control_r_search",
      "displayed_columns", "custom_columns", "is_offline",
      "filter_duplicate_commands", "timestamp_format">>

\* the struct field each JSON name is bound to
FieldNames ==
    <<"UserSecret", "IsEnabled", "DeviceId", "LastSavedHistoryLine",
      "HaveMissedUploads", "MissedUploadTimestamp",
      "HaveCompletedInitialImport", "ControlRSearchEnabled",
      "DisplayedColumns", "CustomColumns", "IsOffline",
      "FilterDuplicateCommands", "TimestampFormat">>

\* the Go type of each field
FieldTypes ==
    <<"string", "bool", "string", "string", "bool", "int64", "bool", "bool",
      "[]string", "[]CustomColumnDefinition", "bool", "bool", "string">>

\* the JSON names of CustomColumnDefinition's fields
ColumnKeys == <<"column_name", "column_command">>

ColumnNames == <<"ColumnName", "ColumnCommand">>

(***************************************************************************)
(* json.Marshal of a ClientConfig (SetConfig, hctx.go:250).                *)
(***************************************************************************)
DQ == "\""

\* encoding/json's string escaping: quote and backslash are escaped, "<"
\* is written as a u003c escape (HTML escaping is on by default) and a byte
\* that is not valid UTF-8 is written as a ufffd escape
EscapeChar(c) ==
    CASE c = "\"" -> "\\\""
      [] c = "\\" -> "\\\\"
      [] c = "<" -> "\\u003c"
      [] c = "xFF" -> "\\ufffd"
      [] OTHER -> c

EncString(s) == <<DQ>> \o [i \in 1..Len(s) |-> EscapeChar(s[i])] \o <<DQ>>

EncBool(b) == IF b THEN <<"true">> ELSE <<"false">>

Digits == <<"0", "1", "2", "3", "4", "5", "6", "7", "8", "9">>

RECURSIVE EncNat(_)
EncNat(n) ==
    IF n < 10 THEN <<Digits[n + 1]>>
    ELSE EncNat(n \div 10) \o <<Digits[(n % 10) + 1]>>

\* a bug: the sign of a negative number is dropped
EncIntUnsigned(n) == IF n < 0 THEN EncNat(0 - n) ELSE EncNat(n)

\* strconv.AppendInt(b, v, 10)
EncInt(n) == IF n < 0 THEN <<"-">> \o EncNat(0 - n) ELSE EncNat(n)

EncKey(k) == <<DQ, k, DQ, ":">>

EncColumn(c) ==
    <<"{">> \o EncKey(ColumnKeys[1]) \o EncString(c.ColumnName) \o <<",">>
            \o EncKey(ColumnKeys[2]) \o EncString(c.ColumnCommand) \o <<"}">>

RECURSIVE EncStringElems(_, _)
\* the elements i.. of an array of strings, separated by commas
EncStringElems(elems, i) ==
    IF i > Len(elems) THEN <<>>
    ELSE (IF i > 1 THEN <<",">> ELSE <<>>)
         \o EncString(elems[i]) \o EncStringElems(elems, i + 1)

RECURSIVE EncColumnElems(_, _)
EncColumnElems(elems, i) ==
    IF i > Len(elems) THEN <<>>
    ELSE (IF i > 1 THEN <<",">> ELSE <<>>)
         \o EncColumn(elems[i]) \o EncColumnElems(elems, i + 1)

\* a nil slice is encoded as null, any other slice as an array
EncStringSlice(sl) ==
    IF sl.isNil THEN <<"null">>
    ELSE <<"[">> \o EncStringElems(sl.elems, 1) \o <<"]">>

EncColumnSlice(sl) ==
    IF sl.isNil THEN <<"null">>
    ELSE <<"[">> \o EncColumnElems(sl.elems, 1) \o <<"]">>

EncField(config, i) ==
    LET v == config[FieldNames[i]]
        t == FieldTypes[i]
    IN  EncKey(FieldKeys[i]) \o
        (CASE t = "string" -> EncString(v)
           [] t = "bool" -> EncBool(v)
           [] t = "int64" -> EncInt(v)
           [] t = "[]string" -> EncStringSlice(v)
           [] OTHER -> EncColumnSlice(v))

RECURSIVE EncFields(_, _)
EncFields(config, i) ==
    IF i > Len(FieldKeys) THEN <<>>
    ELSE (IF i > 1 THEN <<",">> ELSE <<>>)
         \o EncField(config, i) \o EncFields(config, i + 1)

\* json.Marshal(config): every field is written, in declaration order (no
\* field has the omitempty option)
Marshal(config) == <<"{">> \o EncFields(config, 1) \o <<"}">>

(***************************************************************************)
(* json.Unmarshal into a ClientConfig (GetConfig, hctx.go:235-236).        *)
(***************************************************************************)
\* the index of the first closing quote after the opening one at i, or 0
ClosingQuote(s, i) ==
    LET js == {j \in (i + 1)..Len(s) : s[j] = DQ}
    IN  IF js = {} THEN 0 ELSE CHOOSE j \in js : \A k \in js : j <= k

\* the index after the string literal that starts at i, or 0 when there is
\* none: a backslash that starts no escape is a syntax error
StringEnd(s, i) ==
    IF i > Len(s) \/ s[i] # DQ THEN 0
    ELSE LET j == ClosingQuote(s, i)
         IN  IF j = 0 \/ \E k \in (i + 1)..(j - 1) : s[k] = "\\" THEN 0
             ELSE j + 1

\* unquote: escapes are resolved, and a byte that is not valid UTF-8 becomes
\* the replacement character
Unescape(l) ==
    CASE l = "\\\"" -> "\""
      [] l = "\\\\" -> "\\"
      [] l = "\\u003c" -> "<"
      [] l = "\\ufffd" -> "uFFFD"
      [] l = "xFF" -> "uFFFD"
      [] OTHER -> l

\* the Go string of the literal that starts at i
StringVal(s, i) ==
    LET e == StringEnd(s, i)
    IN  [k \in 1..(e - i - 2) |-> Unescape(s[i + k])]

IsDigit(l) == \E d \in 1..10 : Digits[d] = l

DigitVal(l) == (CHOOSE d \in 1..10 : Digits[d] = l) - 1

RECURSIVE DigitsEnd(_, _)
\* the index after the run of digits that starts at i
DigitsEnd(s, i) ==
    IF i <= Len(s) /\ IsDigit(s[i]) THEN DigitsEnd(s, i + 1) ELSE i

\* the index after the number that starts at i, or 0: an optional minus
\* sign, then 0 or a run of digits that does not start with 0
NumberEnd(s, i) ==
    LET d == IF i <= Len(s) /\ s[i] = "-" THEN i + 1 ELSE i
        e == DigitsEnd(s, d)
    IN  IF e = d THEN 0
        ELSE IF s[d] = "0" /\ e > d + 1 THEN 0
        ELSE e

RECURSIVE NatVal(_, _, _)
NatVal(s, i, e) ==
    IF e <= i THEN 0 ELSE NatVal(s, i, e - 1) * 10 + DigitVal(s[e - 1])

\* strconv.ParseInt of the number that starts at i
NumberVal(s, i) ==
    LET e == NumberEnd(s, i)
    IN  IF s[i] = "-" THEN 0 - NatVal(s, i + 1, e) ELSE NatVal(s, i, e)

RECURSIVE SkipValue(_, _)
RECURSIVE SkipElems(_, _)
RECURSIVE SkipMembers(_, _)
\* the scanner: the index after the JSON value that starts at i, or 0 when
\* no value starts there (a syntax error, or the end of the input)
SkipValue(s, i) ==
    IF i > Len(s) THEN 0
    ELSE CASE s[i] = DQ -> StringEnd(s, i)
           [] s[i] \in {"true", "false", "null"} -> i + 1
           [] s[i] = "-" \/ IsDigit(s[i]) -> NumberEnd(s, i)
           [] s[i] = "[" ->
                IF i + 1 <= Len(s) /\ s[i + 1] = "]" THEN i + 2
                ELSE SkipElems(s, i + 1)
           [] s[i] = "{" ->
                IF i + 1 <= Len(s) /\ s[i + 1] = "}" THEN i + 2
                ELSE SkipMembers(s, i + 1)
           [] OTHER -> 0

\* the rest of an array from the element that starts at i
SkipElems(s, i) ==
    LET e == SkipValue(s, i)
    IN  IF e = 0 \/ e > Len(s) THEN 0
        ELSE IF s[e] = "," THEN SkipElems(s, e + 1)
        ELSE IF s[e] = "]" THEN e + 1
        ELSE 0

\* the rest of an object from the member whose key starts at i
SkipMembers(s, i) ==
    LET k == StringEnd(s, i)
    IN  IF k = 0 \/ k > Len(s) \/ s[k] # ":" THEN 0
        ELSE LET e == SkipValue(s, k + 1)
             IN  IF e = 0 \/ e > Len(s) THEN 0
                 ELSE IF s[e] = "," THEN SkipMembers(s, e + 1)
                 ELSE IF s[e] = "}" THEN e + 1
                 ELSE 0

\* checkValid: the input is exactly one JSON value
Valid(s) == SkipValue(s, 1) = Len(s) + 1

\* the index of key k in keys, or 0 for a key the struct does not have
KeyIndex(keys, k) ==
    IF \E n \in 1..Len(keys) : k = <<keys[n]>>
    THEN CHOOSE n \in 1..Len(keys) : k = <<keys[n]>>
    ELSE 0

\* Decoding state: the value decoded so far and whether a value of the wrong
\* type was met (the decoder saves the first such error and goes on).
\* the member whose value starts at v, for the field of index n of a
\* CustomColumnDefinition
DecodeColumnMember(s, v, n, acc) ==
    IF n = 0 \/ s[v] = "null" THEN acc
    ELSE IF s[v] = DQ
    THEN [acc EXCEPT !.val[ColumnNames[n]] = StringVal(s, v)]
    ELSE [acc EXCEPT !.bad = TRUE]

RECURSIVE DecodeColumnMembers(_, _, _)
RECURSIVE DecodeColumnMembersFrom(_, _, _)
\* the members of a CustomColumnDefinition object from the key at i
DecodeColumnMembers(s, i, acc) ==
    DecodeColumnMembersFrom(s, SkipValue(s, StringEnd(s, i) + 1),
        DecodeColumnMember(s, StringEnd(s, i) + 1,
                           KeyIndex(ColumnKeys, StringVal(s, i)), acc))

\* the members that follow the one that ends before e
DecodeColumnMembersFrom(s, e, acc) ==
    IF s[e] = "," THEN DecodeColumnMembers(s, e + 1, acc) ELSE acc

ZeroColumn == [val |-> CustomColumnDefinition(<<>>, <<>>), bad |-> FALSE]

\* one element of a []CustomColumnDefinition, which starts at i
DecodeColumn(s, i) ==
    IF s[i] = "null" THEN ZeroColumn
    ELSE IF s[i] # "{" THEN [ZeroColumn EXCEPT !.bad = TRUE]
    ELSE IF s[i + 1] = "}" THEN ZeroColumn
    ELSE DecodeColumnMembers(s, i + 1, ZeroColumn)

\* one element of a []string, which starts at i
DecodeStringElem(s, i) ==
    IF s[i] = DQ THEN [val |-> StringVal(s, i), bad |-> FALSE]
    ELSE [val |-> <<>>, bad |-> s[i] # "null"]

\* one element of a slice of type t, which starts at i
DecodeElem(s, i, t) ==
    IF t = "[]string" THEN DecodeStringElem(s, i) ELSE DecodeColumn(s, i)

AppendElem(acc, d) ==
    [val |-> Append(acc.val, d.val), bad |-> acc.bad \/ d.bad]

RECURSIVE DecodeElems(_, _, _, _)
RECURSIVE DecodeElemsFrom(_, _, _, _)
\* the elements of an array from the one that starts at i
DecodeElems(s, i, t, acc) ==
    DecodeElemsFrom(s, SkipValue(s, i), t,
                    AppendElem(acc, DecodeElem(s, i, t)))

\* the elements that follow the one that ends before e
DecodeElemsFrom(s, e, t, acc) ==
    IF s[e] = "," THEN DecodeElems(s, e + 1, t, acc) ELSE acc

\* the slice of the elements decoded
SliceOf(a) == [val |-> MakeSlice(a.val), bad |-> a.bad]

Decoded(val) == [val |-> val, bad |-> FALSE]

Mismatch(old) == [val |-> old, bad |-> TRUE]

\* the value that starts at i, stored in a field of type t that holds old:
\* null leaves a string, a bool or a number as it is and makes a slice nil;
\* a value of another type than t leaves the field as it is, and the error
\* is kept
DecodeValue(s, i, t, old) ==
    IF s[i] = "null"
    THEN IF t \in {"string", "bool", "int64"} THEN Decoded(old)
         ELSE Decoded(NilSlice)
    ELSE CASE t = "string" ->
                IF s[i] = DQ THEN Decoded(StringVal(s, i))
                ELSE Mismatch(old)
           [] t = "bool" ->
                IF s[i] \in {"true", "false"} THEN Decoded(s[i] = "true")
                ELSE Mismatch(old)
           [] t = "int64" ->
                IF s[i] = "-" \/ IsDigit(s[i]) THEN Decoded(NumberVal(s, i))
                ELSE Mismatch(old)
           [] OTHER ->
                IF s[i] # "[" THEN Mismatch(old)
                ELSE IF s[i + 1] = "]" THEN Decoded(MakeSlice(<<>>))
                ELSE SliceOf(DecodeElems(s, i + 1, t, Decoded(<<>>)))

\* a decoded value stored in field n of the config
StoreField(acc, n, d) ==
    [val |-> [acc.val EXCEPT ![FieldNames[n]] = d.val],
     bad |-> acc.bad \/ d.bad]

\* the member whose value starts at v, for the field of index n: a key the
\* struct does not have (n = 0) is skipped, a repeated key is decoded again
DecodeMember(s, v, n, acc) ==
    IF n = 0 THEN acc
    ELSE StoreField(acc, n, DecodeValue(s, v, FieldTypes[n],
                                        acc.val[FieldNames[n]]))

RECURSIVE DecodeMembers(_, _, _)
RECURSIVE DecodeMembersFrom(_, _, _)
\* the members of the ClientConfig object from the key at i
DecodeMembers(s, i, acc) ==
    DecodeMembersFrom(s, SkipValue(s, StringEnd(s, i) + 1),
                      DecodeMember(s, StringEnd(s, i) + 1,
                                   KeyIndex(FieldKeys, StringVal(s, i)), acc))

\* the members that follow the one that ends before e
DecodeMembersFrom(s, e, acc) ==
    IF s[e] = "," THEN DecodeMembers(s, e + 1, acc) ELSE acc

\* the error ("nil" for none) and the config json.Unmarshal leaves, d being
\* what the members decode to: the input is checked whole before any of it
\* is decoded
UnmarshalResult(bytes, d) ==
    IF ~Valid(bytes) THEN [err |-> "SyntaxError", config |-> ZeroConfig]
    ELSE IF bytes[1] \notin {"{", "null"} \/ d.bad
    THEN [err |-> "UnmarshalTypeError", config |-> d.val]
    ELSE [err |-> "nil", config |-> d.val]

\* json.Unmarshal(data, &config) for a zero config
Unmarshal(bytes) ==
    UnmarshalResult(bytes,
                    IF bytes[1] = "{" /\ bytes[2] # "}"
                    THEN DecodeMembers(bytes, 2, Decoded(ZeroConfig))
                    ELSE Decoded(ZeroConfig))

(***************************************************************************)
(* The state.                                                              *)
(***************************************************************************)
VARIABLES
    \* the files of the hishtory directory: path -> bytes
    fs,
    \* whether the hishtory directory exists
    dirExists,
    \* per process: the statement it is at ("idle" between calls)
    pc,
    \* per process: the locals of the call in progress
    loc,
    \* what the last step returned to its caller, and in which process
    \* (NoResult after a step that returned from no call)
    ret,
    \* how many UUIDs uuid.NewRandom has handed out
    uuidsDrawn,
    \* history: the config whose staged file was last renamed onto the
    \* configuration path (or the one found there at the start)
    lastRenamed,
    \* history: a SetConfig was killed between creating its staged file and
    \* completing its rename
    interrupted,
    \* history: calls started and processes killed so far
    calls,
    crashes,
    \* the scenario, fixed by Init: the configs the callers pass to SetConfig
    \* and how many calls they start
    inputs,
    budget

VARIABLES
    \* the package variable hishtoryLogger: "nil" or a pointer to the Logger
    hishtoryLogger,
    \* the Logger that logrus.New made: its formatter, level and output
    logger,
    \* getLoggerOnce: its done flag and the goroutine that holds its mutex
    \* (0 when it is free)
    onceDone,
    onceMutex,
    \* per goroutine: the statement it is at, and what its last call returned
    tpc,
    got,
    \* history: how often the body of the Do was entered, calls started
    constructions,
    loggerCalls,
    \* the process has exited on a panic nobody recovered
    exited

VARIABLES
    \* the datastore file: whether it exists, the columns of its
    \* history_entries table (NoTable when there is none), its indexes (a
    \* sequence of [name, table, column]) and its journal mode
    dbFile,
    \* the statement the caller of OpenLocalSqliteDb is at
    opc,
    \* what the last call returned: the handle and the error
    opened,
    \* history: the steps the call in progress (or just returned) has run,
    \* each with whether it succeeded; calls started; calls that returned a
    \* nil error
    stepsRun,
    opens,
    okOpens,
    \* history: the datastore as the first successful call left it
    firstOpened

VARIABLES
    \* the valueCtx frames context.WithValue has allocated, in the order of
    \* allocation: a carrier is 0 (context.Background()) or the index of a
    \* frame [parent, key, val]
    heap,
    \* MakeContext: the statement it is at, its locals ctx and homedir
    mpc,
    ctx,
    homedir,
    \* a call of GetConf, GetDb or GetHome walking the chain of a carrier
    walk,
    \* what the last such call came to
    out

ctxVars == <<heap, mpc, ctx, homedir, walk, out>>

logVars ==
    <<hishtoryLogger, logger, onceDone, onceMutex, tpc, got, constructions,
      loggerCalls, exited>>

dbVars == <<dbFile, opc, opened, stepsRun, opens, okOpens, firstOpened>>

cfgVars ==
    <<fs, dirExists, pc, loc, ret, uuidsDrawn, lastRenamed, interrupted,
      calls, crashes, inputs, budget>>

vars == <<cfgVars, logVars, dbVars, ctxVars>>

Procs == 1..NumProcs

(***************************************************************************)
(* The configs the processes save.                                         *)
(***************************************************************************)
\* every field set; strings with characters that JSON escapes
FullConfig ==
    [UserSecret |-> <<"a", "\"">>,
     IsEnabled |-> TRUE,
     DeviceId |-> <<"b">>,
     LastSavedHistoryLine |-> <<"<", "\\">>,
     HaveMissedUploads |-> TRUE,
     MissedUploadTimestamp |-> 1705,
     HaveCompletedInitialImport |-> TRUE,
     ControlRSearchEnabled |-> TRUE,
     DisplayedColumns |-> MakeSlice(<< <<"CWD">>, <<"Command">> >>),
     CustomColumns |->
         MakeSlice(<<CustomColumnDefinition(<<"git">>, <<"a", "\"">>)>>),
     IsOffline |-> TRUE,
     FilterDuplicateCommands |-> TRUE,
     TimestampFormat |-> <<"2006-01-02">>]

\* slices that are empty but not nil, a negative number
EmptySlicesConfig ==
    [ZeroConfig EXCEPT !.DisplayedColumns = MakeSlice(<<>>),
                       !.CustomColumns = MakeSlice(<<>>),
                       !.MissedUploadTimestamp = -3,
                       !.DeviceId = <<"uFFFD">>]

\* a history line that is not valid UTF-8
InvalidUtf8Config ==
    [ZeroConfig EXCEPT !.LastSavedHistoryLine = <<"a", "xFF">>,
                       !.IsEnabled = TRUE]

TestConfigs == {ZeroConfig, FullConfig, EmptySlicesConfig, InvalidUtf8Config}

(***************************************************************************)
(* The file system and the environment.                                    *)
(***************************************************************************)
\* path.Join(homedir, data.GetHishtoryPath(), data.CONFIG_PATH)
ConfigPath == <<"homedir", "HishtoryPath", "CONFIG_PATH">>

\* a bug: the same suffix for every staged file
NewRandomFixed(drawn) == EncNat(0)

\* uuid.NewRandom: 122 random bits, modelled as a value never drawn before
NewRandom(drawn) == EncNat(drawn + 1)

\* a bug: the config is written in place, with no staged file
StagedConfigPathInPlace(configPath, uuid) == configPath

\* configPath + ".tmp-" + uuid
StagedConfigPath(configPath, uuid) == configPath \o <<".tmp-">> \o uuid

WriteTo(f, path, bytes) ==
    [q \in DOMAIN f \cup {path} |-> IF q = path THEN bytes ELSE f[q]]

Remove(f, path) == [q \in DOMAIN f \ {path} |-> f[q]]

\* rename(2): newpath is replaced in one step; renaming a file onto itself
\* does nothing
RenameFile(f, oldpath, newpath) ==
    IF oldpath = newpath THEN f
    ELSE Remove(WriteTo(f, newpath, f[oldpath]), oldpath)

\* the bytes one write system call adds to a file that has `written` of data
ChunkLen(data) == (Len(data) + WriteChunks - 1) \div WriteChunks

NextChunk(data, written) ==
    SubSeq(data, written + 1,
           IF written + ChunkLen(data) < Len(data)
           THEN written + ChunkLen(data) ELSE Len(data))

\* What a call returns: the error ("nil" for none), what the error wraps,
\* the config (GetConfig) and the directory listing in the error's text.
\* With it, as history: the errno of the call's os.ReadFile or os.Stat, whether
\* a system call of the call failed for a reason outside the model (a
\* permission, a full disk, no HOME), and lastRenamed and interrupted as
\* they were when the call read the file.
Result(op, err, wraps) ==
    [proc |-> 0, op |-> op, err |-> err, wraps |-> wraps,
     config |-> ZeroConfig, files |-> {}, errno |-> "nil", faulted |-> FALSE,
     seen |-> lastRenamed, afterInterrupt |-> interrupted]

Ok(p, op) == [Result(op, "nil", "nil") EXCEPT !.errno = loc[p].errno]

\* a system call failed for a reason outside the model
Failed(p, op, err, wraps) ==
    [Result(op, err, wraps) EXCEPT !.errno = loc[p].errno, !.faulted = TRUE]

NoLocals ==
    [op |-> "none", config |-> ZeroConfig, data |-> <<>>, path |-> <<>>,
     written |-> 0, errno |-> "nil", seen |-> [present |-> FALSE],
     afterInterrupt |-> FALSE]

NoResult == [proc |-> 0, op |-> "none"]

NoConfig == [present |-> FALSE]

SomeConfig(c) == [present |-> TRUE, config |-> c]

(***************************************************************************)
(* The logger and the datastore before any call.                           *)
(***************************************************************************)
Threads == 1..NumThreads

\* logrus.New(): output to stderr, the default text formatter, InfoLevel
NewLogger ==
    [formatter |-> "TextFormatter{}", level |-> "InfoLevel",
     output |-> "os.Stderr"]

NoLogger == [formatter |-> "none", level |-> "none", output |-> "none"]

\* what a call of GetLogger came to: the pointer it returned and the Logger
\* as the caller finds it, or a panic
Handle(pointer, l, panicked) ==
    [called |-> TRUE, panicked |-> panicked, pointer |-> pointer,
     logger |-> l]

NoHandle ==
    [called |-> FALSE, panicked |-> FALSE, pointer |-> "nil",
     logger |-> NoLogger]

LoggerUnused ==
    /\ hishtoryLogger = "nil"
    /\ logger = NoLogger
    /\ onceDone = 0
    /\ onceMutex = 0
    /\ tpc = [t \in Threads |-> "idle"]
    /\ got = [t \in Threads |-> NoHandle]
    /\ constructions = 0
    /\ loggerCalls = 0
    /\ exited = FALSE

NoTable == {"no such table"}

NoDatastore ==
    [exists |-> FALSE, columns |-> NoTable, indexes |-> <<>>,
     journal |-> "delete"]

NotOpened == [op |-> "none", db |-> "nil", err |-> "nil"]

StoreUnused ==
    /\ dirExists = FALSE
    /\ fs = <<>>
    /\ lastRenamed = NoConfig
    /\ pc = [p \in Procs |-> "idle"]
    /\ loc = [p \in Procs |-> NoLocals]
    /\ ret = NoResult
    /\ uuidsDrawn = 0
    /\ interrupted = FALSE
    /\ calls = 0
    /\ crashes = 0
    /\ inputs = {}
    /\ budget = 0

\* no frame allocated, no call of MakeContext or of a getter under way
CarrierUnused ==
    /\ heap = <<>>
    /\ mpc = "idle"
    /\ ctx = 0
    /\ homedir = "unresolved"
    /\ walk = [pc |-> "idle"]
    /\ out = [op |-> "none"]

DatastoreUnused ==
    /\ dbFile = NoDatastore
    /\ opc = "idle"
    /\ opened = NotOpened
    /\ stepsRun = <<>>
    /\ opens = 0
    /\ okOpens = 0
    /\ firstOpened = NoDatastore

(***************************************************************************)
(* Init: a fresh machine (no hishtory directory), or one where an earlier  *)
(* run saved a config.                                                     *)
(***************************************************************************)
InitConfigs == {FullConfig}

\* the configs concurrent callers save
ConcurrentConfigs == {FullConfig, EmptySlicesConfig}

InitStore ==
    /\ \/ /\ dirExists = FALSE
          /\ fs = <<>>
          /\ lastRenamed = NoConfig
       \/ \E c \in InitConfigs :
            /\ dirExists = TRUE
            /\ fs = WriteTo(<<>>, ConfigPath, Marshal(c))
            /\ lastRenamed = SomeConfig(c)
    /\ pc = [p \in Procs |-> "idle"]
    /\ loc = [p \in Procs |-> NoLocals]
    /\ ret = NoResult
    /\ uuidsDrawn = 0
    /\ interrupted = FALSE
    /\ calls = 0
    /\ crashes = 0

\* several processes that share the directory
Init ==
    /\ InitStore
    /\ LoggerUnused
    /\ DatastoreUnused
    /\ CarrierUnused
    /\ inputs = ConcurrentConfigs
    /\ budget = MaxCalls

\* one process, whose calls follow one another
InitSeq ==
    /\ InitStore
    /\ LoggerUnused
    /\ DatastoreUnused
    /\ CarrierUnused
    /\ inputs = TestConfigs
    /\ budget = MaxSeqCalls

\* The processes run the same code and differ in nothing but their number:
\* the next call is taken by the idle process with the lowest number.
Idle(p) == pc[p] = "idle" /\ \A q \in Procs : pc[q] = "idle" => p <= q

(***************************************************************************)
(* Return(p, r): the call of p returns r.                                  *)
(***************************************************************************)
Return(p, r) ==
    /\ pc' = [pc EXCEPT ![p] = "idle"]
    /\ loc' = [loc EXCEPT ![p] = NoLocals]
    /\ ret' = [r EXCEPT !.proc = p]

Goto(p, label, locals) ==
    /\ pc' = [pc EXCEPT ![p] = label]
    /\ loc' = [loc EXCEPT ![p] = locals]
    /\ ret' = NoResult

(***************************************************************************)
(* SetConfig, hctx.go:249-273.                                             *)
(***************************************************************************)
\* MakeHishtoryDir, hctx.go:65-76: the error it returns when resolving the
\* home directory or os.MkdirAll fails
MakeHishtoryDir(homeOk, mkdirOk) ==
    IF ~homeOk THEN "failed to get user's home directory"
    ELSE IF ~mkdirOk THEN "failed to create dir"
    ELSE "nil"

\* hctx.go:250-263: serialize, resolve the home directory, make the
\* directory, name the staged file
SetConfigEntry(p, op, config) ==
    \E homeOk, dirHomeOk, mkdirOk \in BOOLEAN :
        LET made == MakeHishtoryDir(dirHomeOk, mkdirOk)
            uuid == NewRandom(uuidsDrawn)
        IN  IF ~homeOk
            THEN /\ Return(p, Failed(p, op, "failed to retrieve homedir",
                                     "HOME is not defined"))
                 /\ UNCHANGED <<fs, dirExists, uuidsDrawn, lastRenamed>>
            ELSE IF made # "nil"
            THEN /\ Return(p, Failed(p, op, "failed to create hishtory dir",
                                     made))
                 /\ UNCHANGED <<fs, dirExists, uuidsDrawn, lastRenamed>>
            ELSE /\ dirExists' = TRUE
                 /\ uuidsDrawn' = uuidsDrawn + 1
                 /\ Goto(p, "WriteFile",
                         [op |-> op, config |-> config,
                          data |-> Marshal(config),
                          path |-> StagedConfigPath(ConfigPath, uuid),
                          written |-> 0, errno |-> loc[p].errno,
                          seen |-> loc[p].seen,
                          afterInterrupt |-> loc[p].afterInterrupt])
                 /\ UNCHANGED <<fs, lastRenamed>>

\* a process calls SetConfig(config)
CallSetConfig(p, config) ==
    /\ Idle(p)
    /\ calls < budget
    /\ calls' = calls + 1
    /\ SetConfigEntry(p, "SetConfig", config)
    /\ UNCHANGED <<interrupted, crashes>>

\* hctx.go:264, os.WriteFile: open the staged file with O_CREATE|O_TRUNC
WriteFileOpen(p) ==
    /\ pc[p] = "WriteFile"
    /\ \/ /\ fs' = WriteTo(fs, loc[p].path, <<>>)
          /\ Goto(p, "Write", loc[p])
       \/ /\ Return(p, Failed(p, loc[p].op, "failed to write config",
                               "EACCES"))
          /\ fs' = fs
    /\ UNCHANGED <<dirExists, uuidsDrawn, lastRenamed, interrupted, calls,
                   crashes>>

\* hctx.go:264, os.WriteFile: one write system call, which may fail (a full
\* disk) with the earlier chunks written; the file is closed after the last
WriteFileWrite(p) ==
    /\ pc[p] = "Write"
    /\ \/ LET chunk == NextChunk(loc[p].data, loc[p].written)
              done == loc[p].written + Len(chunk)
          IN  /\ fs' = WriteTo(fs, loc[p].path, fs[loc[p].path] \o chunk)
              /\ Goto(p, IF done = Len(loc[p].data) THEN "Rename" ELSE "Write",
                      [loc[p] EXCEPT !.written = done])
       \/ /\ Return(p, Failed(p, loc[p].op, "failed to write config",
                               "ENOSPC"))
          /\ fs' = fs
    /\ UNCHANGED <<dirExists, uuidsDrawn, lastRenamed, interrupted, calls,
                   crashes>>

\* hctx.go:268-272: os.Rename(stagedConfigPath, configPath) and the return
Rename(p) ==
    /\ pc[p] = "Rename"
    /\ \/ /\ loc[p].path \in DOMAIN fs
          /\ fs' = RenameFile(fs, loc[p].path, ConfigPath)
          /\ lastRenamed' = SomeConfig(loc[p].config)
          /\ Return(p, Ok(p, loc[p].op))
       \/ /\ Return(p, Failed(p, loc[p].op,
                "failed to replace config file with the updated version",
                IF loc[p].path \in DOMAIN fs THEN "EACCES" ELSE "ENOENT"))
          /\ UNCHANGED <<fs, lastRenamed>>
    /\ UNCHANGED <<dirExists, uuidsDrawn, interrupted, calls, crashes>>

(***************************************************************************)
(* GetConfigContents and GetConfig, hctx.go:209-247.                       *)
(***************************************************************************)
\* a bug: the exit code's column under another name
DefaultDisplayedColumnsUnspaced ==
    MakeSlice(<< <<"Hostname">>, <<"CWD">>, <<"Timestamp">>, <<"Runtime">>,
                 <<"ExitCode">>, <<"Command">> >>)

DefaultDisplayedColumns ==
    MakeSlice(<< <<"Hostname">>, <<"CWD">>, <<"Timestamp">>, <<"Runtime">>,
                 <<"Exit Code">>, <<"Command">> >>)

DefaultTimestampFormat == <<"Jan 2 2006 15:04:05 MST">>

\* a bug: no default for the timestamp format
ApplyDefaultsColumnsOnly(config) ==
    IF config.DisplayedColumns.isNil \/ SliceLen(config.DisplayedColumns) = 0
    THEN [config EXCEPT !.DisplayedColumns = DefaultDisplayedColumns]
    ELSE config

\* hctx.go:240-245
ApplyDefaults(config) ==
    LET withColumns ==
            IF config.DisplayedColumns.isNil
               \/ SliceLen(config.DisplayedColumns) = 0
            THEN [config EXCEPT !.DisplayedColumns = DefaultDisplayedColumns]
            ELSE config
    IN  IF withColumns.TimestampFormat = <<>>
        THEN [withColumns EXCEPT !.TimestampFormat = DefaultTimestampFormat]
        ELSE withColumns

\* a bug: what was parsed before the error is returned as the config
GetConfigOfLenient(dat) ==
    [Result("GetConfig", "nil", "nil")
       EXCEPT !.config = ApplyDefaults(Unmarshal(dat).config)]

\* hctx.go:235-246: what GetConfig returns once the file's bytes are read
GetConfigOf(dat) ==
    LET u == Unmarshal(dat)
    IN  IF u.err # "nil"
        THEN Result("GetConfig", "failed to parse config file", u.err)
        ELSE [Result("GetConfig", "nil", "nil")
                EXCEPT !.config = ApplyDefaults(u.config)]

\* hctx.go:210-215 and 230-246: resolve the home directory, read the file;
\* when the file is read, parse it and return
GetConfigRead(p) ==
    /\ Idle(p)
    /\ calls < budget
    /\ calls' = calls + 1
    /\ \E homeOk, readOk \in BOOLEAN :
         IF ~homeOk
         THEN Return(p, Failed(p, "GetConfig", "failed to retrieve homedir",
                               "HOME is not defined"))
         ELSE IF readOk /\ ConfigPath \in DOMAIN fs
         THEN Return(p, GetConfigOf(fs[ConfigPath]))
         ELSE Goto(p, "ReadDir",
                   [NoLocals EXCEPT
                      !.op = "GetConfig",
                      !.errno = IF ConfigPath \in DOMAIN fs
                                THEN "EACCES" ELSE "ENOENT",
                      !.seen = lastRenamed,
                      !.afterInterrupt = interrupted])
    /\ UNCHANGED <<fs, dirExists, uuidsDrawn, lastRenamed, interrupted,
                   crashes>>

\* a bug: a listing that fails is passed over, and the zero config returned
GetConfigReadDirSwallowed(p) ==
    /\ pc[p] = "ReadDir"
    /\ \E listOk \in BOOLEAN :
         LET read == [errno |-> loc[p].errno,
                      faulted |-> (loc[p].errno # "ENOENT"
                                   \/ (dirExists /\ ~listOk)),
                      seen |-> loc[p].seen,
                      afterInterrupt |-> loc[p].afterInterrupt]
         IN  IF listOk /\ dirExists
             THEN Return(p, read @@ [files |-> DOMAIN fs] @@ Result("GetConfig",
                      "failed to read config file (files in HISHTORY_PATH)",
                      "nil"))
             ELSE Return(p, read @@ Result("GetConfig", "nil", "nil"))
    /\ UNCHANGED <<fs, dirExists, uuidsDrawn, lastRenamed, interrupted,
                   calls, crashes>>

\* hctx.go:216-225: the read failed; list the directory.  The err of line
\* 216 shadows the read's error, so the error of line 225 wraps a nil error.
GetConfigReadDir(p) ==
    /\ pc[p] = "ReadDir"
    /\ \E listOk \in BOOLEAN :
         LET read == [errno |-> loc[p].errno,
                      faulted |-> (loc[p].errno # "ENOENT"
                                   \/ (dirExists /\ ~listOk)),
                      seen |-> loc[p].seen,
                      afterInterrupt |-> loc[p].afterInterrupt]
         IN  IF listOk /\ dirExists
             THEN Return(p, read @@ [files |-> DOMAIN fs] @@ Result("GetConfig",
                      "failed to read config file (files in HISHTORY_PATH)",
                      "nil"))
             ELSE Return(p, read @@ Result("GetConfig",
                      "failed to read config file (and failed to list too)",
                      IF dirExists THEN "EACCES" ELSE "ENOENT"))
    /\ UNCHANGED <<fs, dirExists, uuidsDrawn, lastRenamed, interrupted,
                   calls, crashes>>

(***************************************************************************)
(* InitConfig, hctx.go:275-285.                                            *)
(***************************************************************************)
\* a bug: the zero config is saved whether or not the file exists
InitConfigStatNoCheck(p) ==
    /\ Idle(p)
    /\ calls < budget
    /\ calls' = calls + 1
    /\ Goto(p, "SetConfig",
            [NoLocals EXCEPT !.op = "InitConfig", !.errno = "ENOENT"])
    /\ UNCHANGED <<fs, dirExists, uuidsDrawn, lastRenamed, interrupted,
                   crashes>>

\* hctx.go:276-284: resolve the home directory and os.Stat the file
InitConfigStat(p) ==
    /\ Idle(p)
    /\ calls < budget
    /\ calls' = calls + 1
    /\ \E homeOk, statOk \in BOOLEAN :
         IF ~homeOk
         THEN Return(p, Failed(p, "InitConfig", "HOME is not defined", "nil"))
         ELSE IF ~statOk
         THEN Return(p, [Failed(p, "InitConfig", "EACCES", "nil")
                           EXCEPT !.errno = "EACCES"])
         ELSE IF ConfigPath \in DOMAIN fs
         THEN Return(p, Ok(p, "InitConfig"))
         ELSE Goto(p, "SetConfig",
                   [NoLocals EXCEPT !.op = "InitConfig", !.errno = "ENOENT"])
    /\ UNCHANGED <<fs, dirExists, uuidsDrawn, lastRenamed, interrupted,
                   crashes>>

\* hctx.go:282: return SetConfig(ClientConfig{})
InitConfigSetConfig(p) ==
    /\ pc[p] = "SetConfig"
    /\ SetConfigEntry(p, "InitConfig", ZeroConfig)
    /\ UNCHANGED <<interrupted, calls, crashes>>

(***************************************************************************)
(* A process is killed in the middle of a call; the files stay as they     *)
(* are.  The slot is taken by a new process.                               *)
(***************************************************************************)
Crash(p) ==
    /\ pc[p] # "idle"
    /\ crashes < MaxCrashes
    /\ crashes' = crashes + 1
    /\ interrupted' = (interrupted \/ pc[p] \in {"Write", "Rename"})
    /\ Return(p, [proc |-> p, op |-> "crashed"])
    /\ UNCHANGED <<fs, dirExists, uuidsDrawn, lastRenamed, calls>>

\* the scenario does not change
Scenario == UNCHANGED <<inputs, budget, logVars, dbVars, ctxVars>>

(***************************************************************************)
(* The configuration store.                                                *)
(***************************************************************************)
Next ==
    \E p \in Procs :
        \/ \E config \in inputs : CallSetConfig(p, config) /\ Scenario
        \/ WriteFileOpen(p) /\ Scenario
        \/ WriteFileWrite(p) /\ Scenario
        \/ Rename(p) /\ Scenario
        \/ GetConfigRead(p) /\ Scenario
        \/ GetConfigReadDir(p) /\ Scenario
        \/ InitConfigStat(p) /\ Scenario
        \/ InitConfigSetConfig(p) /\ Scenario
        \/ Crash(p) /\ Scenario

Spec == Init /\ [][Next]_vars

\* one process that runs to the end of every call
NextSeq ==
    \/ \E config \in inputs : CallSetConfig(1, config) /\ Scenario
    \/ WriteFileOpen(1) /\ Scenario
    \/ WriteFileWrite(1) /\ Scenario
    \/ Rename(1) /\ Scenario
    \/ GetConfigRead(1) /\ Scenario
    \/ GetConfigReadDir(1) /\ Scenario
    \/ InitConfigStat(1) /\ Scenario
    \/ InitConfigSetConfig(1) /\ Scenario

SpecSeq == InitSeq /\ [][NextSeq]_vars

(***************************************************************************)
(* GetLogger, hctx.go:35-63, called from several goroutines.               *)
(* getLoggerOnce.Do(f) is sync.Once's: a caller that finds done set        *)
(* returns at once; any other takes the mutex and, if done is still not    *)
(* set, runs f; done is set and the mutex released by deferred calls, which *)
(* run also when f panics.                                                 *)
(***************************************************************************)
LoggerFrame == UNCHANGED <<cfgVars, dbVars, ctxVars>>

At(t, label) == ~exited /\ tpc[t] = label

Step(t, label) == tpc' = [tpc EXCEPT ![t] = label]

\* a goroutine calls GetLogger
CallGetLogger(t) ==
    /\ At(t, "idle")
    /\ loggerCalls < MaxLoggerCalls
    /\ loggerCalls' = loggerCalls + 1
    /\ Step(t, "Do")
    /\ got' = [got EXCEPT ![t] = NoHandle]
    /\ UNCHANGED <<hishtoryLogger, logger, onceDone, onceMutex, constructions,
                   exited>>
    /\ LoggerFrame

\* Once.Do: the load of done
OnceDo(t) ==
    /\ At(t, "Do")
    /\ Step(t, IF onceDone = 1 THEN "return" ELSE "doSlow")
    /\ UNCHANGED <<hishtoryLogger, logger, onceDone, onceMutex, got,
                   constructions, loggerCalls, exited>>
    /\ LoggerFrame

\* Once.doSlow: o.m.Lock()
OnceLock(t) ==
    /\ At(t, "doSlow")
    /\ onceMutex = 0
    /\ onceMutex' = t
    /\ Step(t, "locked")
    /\ UNCHANGED <<hishtoryLogger, logger, onceDone, got, constructions,
                   loggerCalls, exited>>
    /\ LoggerFrame

\* Once.doSlow: with the mutex held, run f if done is not set
OnceCheck(t) ==
    /\ At(t, "locked")
    /\ IF onceDone = 0
       THEN constructions' = constructions + 1 /\ Step(t, "UserHomeDir")
       ELSE constructions' = constructions /\ Step(t, "Unlock")
    /\ UNCHANGED <<hishtoryLogger, logger, onceDone, onceMutex, got,
                   loggerCalls, exited>>
    /\ LoggerFrame

\* hctx.go:37-40: os.UserHomeDir, panic on error
ConstructHome(t) ==
    /\ At(t, "UserHomeDir")
    /\ \E homeOk \in BOOLEAN :
         Step(t, IF homeOk THEN "MakeHishtoryDir" ELSE "panicking")
    /\ UNCHANGED <<hishtoryLogger, logger, onceDone, onceMutex, got,
                   constructions, loggerCalls, exited>>
    /\ LoggerFrame

\* hctx.go:41-44: MakeHishtoryDir, panic on error
ConstructDir(t) ==
    /\ At(t, "MakeHishtoryDir")
    /\ \E homeOk, mkdirOk \in BOOLEAN :
         Step(t, IF MakeHishtoryDir(homeOk, mkdirOk) = "nil"
                 THEN "logrus.New" ELSE "panicking")
    /\ UNCHANGED <<hishtoryLogger, logger, onceDone, onceMutex, got,
                   constructions, loggerCalls, exited>>
    /\ LoggerFrame

\* hctx.go:46-57: hishtoryLogger = logrus.New()
ConstructNew(t) ==
    /\ At(t, "logrus.New")
    /\ hishtoryLogger' = "logger"
    /\ logger' = NewLogger
    /\ Step(t, "SetFormatter")
    /\ UNCHANGED <<onceDone, onceMutex, got, constructions, loggerCalls,
                   exited>>
    /\ LoggerFrame

\* hctx.go:58
ConstructSetFormatter(t) ==
    /\ At(t, "SetFormatter")
    /\ logger' = [logger EXCEPT
                    !.formatter = "TextFormatter{RFC3339, FullTimestamp}"]
    /\ Step(t, "SetLevel")
    /\ UNCHANGED <<hishtoryLogger, onceDone, onceMutex, got, constructions,
                   loggerCalls, exited>>
    /\ LoggerFrame

\* hctx.go:59
ConstructSetLevel(t) ==
    /\ At(t, "SetLevel")
    /\ logger' = [logger EXCEPT !.level = "InfoLevel"]
    /\ Step(t, "SetOutput")
    /\ UNCHANGED <<hishtoryLogger, onceDone, onceMutex, got, constructions,
                   loggerCalls, exited>>
    /\ LoggerFrame

\* hctx.go:60
ConstructSetOutput(t) ==
    /\ At(t, "SetOutput")
    /\ logger' = [logger EXCEPT !.output = "lumberjack"]
    /\ Step(t, "Store")
    /\ UNCHANGED <<hishtoryLogger, onceDone, onceMutex, got, constructions,
                   loggerCalls, exited>>
    /\ LoggerFrame

\* Once.doSlow: the deferred o.done.Store(1), after f returned or while it
\* panics
OnceStore(t) ==
    /\ At(t, "Store") \/ At(t, "panicking")
    /\ onceDone' = 1
    /\ Step(t, IF tpc[t] = "Store" THEN "Unlock" ELSE "panicUnlock")
    /\ UNCHANGED <<hishtoryLogger, logger, onceMutex, got, constructions,
                   loggerCalls, exited>>
    /\ LoggerFrame

\* Once.doSlow: the deferred o.m.Unlock()
OnceUnlock(t) ==
    /\ At(t, "Unlock") \/ At(t, "panicUnlock")
    /\ onceMutex' = 0
    /\ Step(t, IF tpc[t] = "Unlock" THEN "return" ELSE "panicked")
    /\ UNCHANGED <<hishtoryLogger, logger, onceDone, got, constructions,
                   loggerCalls, exited>>
    /\ LoggerFrame

\* hctx.go:62: return hishtoryLogger
GetLoggerReturn(t) ==
    /\ At(t, "return")
    /\ got' = [got EXCEPT ![t] = Handle(hishtoryLogger, logger, FALSE)]
    /\ Step(t, "idle")
    /\ UNCHANGED <<hishtoryLogger, logger, onceDone, onceMutex, constructions,
                   loggerCalls, exited>>
    /\ LoggerFrame

\* the panic leaves GetLogger; no caller recovers it and the process exits
PanicExit(t) ==
    /\ At(t, "panicked")
    /\ exited' = TRUE
    /\ UNCHANGED <<hishtoryLogger, logger, onceDone, onceMutex, tpc, got,
                   constructions, loggerCalls>>
    /\ LoggerFrame

\* the panic leaves GetLogger; a caller recovers it and the goroutine goes on
PanicRecovered(t) ==
    /\ At(t, "panicked")
    /\ got' = [got EXCEPT ![t] = Handle("nil", NoLogger, TRUE)]
    /\ Step(t, "idle")
    /\ UNCHANGED <<hishtoryLogger, logger, onceDone, onceMutex, constructions,
                   loggerCalls, exited>>
    /\ LoggerFrame

InitLogger ==
    StoreUnused /\ LoggerUnused /\ DatastoreUnused /\ CarrierUnused

NextLogger ==
    \E t \in Threads :
        \/ CallGetLogger(t)
        \/ OnceDo(t)
        \/ OnceLock(t)
        \/ OnceCheck(t)
        \/ ConstructHome(t)
        \/ ConstructDir(t)
        \/ ConstructNew(t)
        \/ ConstructSetFormatter(t)
        \/ ConstructSetLevel(t)
        \/ ConstructSetOutput(t)
        \/ OnceStore(t)
        \/ OnceUnlock(t)
        \/ GetLoggerReturn(t)
        \/ PanicExit(t)
        \/ PanicRecovered(t)

SpecLogger == InitLogger /\ [][NextLogger]_vars

(***************************************************************************)
(* OpenLocalSqliteDb, hctx.go:78-114, one caller at a time.  Every call of *)
(* the storage engine can fail (file locked by another process, disk full, *)
(* read-only medium); a statement also fails for what it finds in the      *)
(* file.                                                                   *)
(***************************************************************************)
DbFrame == UNCHANGED <<cfgVars, logVars, ctxVars>>

\* the columns gorm derives from data.HistoryEntry, and those of a file
\* written before the last column was added
HistoryEntryColumns == {"command", "end_time", "device_id"}

OldColumns == {"command", "end_time"}

EndTimeIndex ==
    [name |-> "end_time_index", table |-> "history_entries",
     column |-> "end_time"]

OldDatastore ==
    [exists |-> TRUE, columns |-> OldColumns, indexes |-> <<>>,
     journal |-> "delete"]

CurrentDatastore ==
    [exists |-> TRUE, columns |-> HistoryEntryColumns,
     indexes |-> <<EndTimeIndex>>, journal |-> "wal"]

Datastores == {NoDatastore, OldDatastore, CurrentDatastore}

\* gorm's AutoMigrate: create the table if it is missing, add the columns
\* it lacks
AutoMigrate(file) ==
    [file EXCEPT !.columns = IF file.columns = NoTable
                             THEN HistoryEntryColumns
                             ELSE file.columns \cup HistoryEntryColumns]

\* CREATE INDEX IF NOT EXISTS name ON table(column): an error if the table
\* or the column is missing, nothing if an index of that name exists
CreateIndexFails(file, index) ==
    file.columns = NoTable \/ index.column \notin file.columns

CreateIndexIfNotExists(file, index) ==
    IF \E i \in 1..Len(file.indexes) : file.indexes[i].name = index.name
    THEN file
    ELSE [file EXCEPT !.indexes = Append(file.indexes, index)]

Ran(step, ok) == stepsRun' = Append(stepsRun, [step |-> step, ok |-> ok])

OpenResult(db, err) == [op |-> "Open", db |-> db, err |-> err]

\* hctx.go:79-86: resolve the home directory, make the hishtory directory
OpenStart ==
    /\ opc \in {"idle", "panicked"}
    /\ opens < MaxOpens
    /\ opens' = opens + 1
    /\ stepsRun' = <<>>
    /\ \E homeOk, dirHomeOk, mkdirOk \in BOOLEAN :
         IF ~homeOk
         THEN /\ opened' = OpenResult("nil",
                               "failed to get user's home directory")
              /\ opc' = "idle"
         ELSE IF MakeHishtoryDir(dirHomeOk, mkdirOk) # "nil"
         THEN /\ opened' = OpenResult("nil", "failed to make hishtory dir")
              /\ opc' = "idle"
         ELSE /\ opened' = NotOpened
              /\ opc' = "GetLogger"
    /\ UNCHANGED <<dbFile, okOpens, firstOpened>>
    /\ DbFrame

\* hctx.go:87-95: GetLogger().WithField; GetLogger panics when it cannot
\* construct, and WithField panics on the nil it returns after that
OpenGetLogger ==
    /\ opc = "GetLogger"
    /\ \E pointer \in {"logger", "nil", "panic"} :
         opc' = IF pointer = "logger" THEN "gorm.Open" ELSE "panicked"
    /\ UNCHANGED <<dbFile, opened, stepsRun, opens, okOpens, firstOpened>>
    /\ DbFrame

\* hctx.go:96-101: gorm.Open with mode=rwc and _journal_mode=WAL
OpenConnect ==
    /\ opc = "gorm.Open"
    /\ \E ok \in BOOLEAN :
         /\ Ran("gorm.Open", ok)
         /\ IF ok
            THEN /\ dbFile' = [dbFile EXCEPT !.exists = TRUE,
                                             !.journal = "wal"]
                 /\ opc' = "db.DB"
                 /\ UNCHANGED opened
            ELSE /\ opened' = OpenResult("nil", "failed to connect to the DB")
                 /\ opc' = "idle"
                 /\ UNCHANGED dbFile
    /\ UNCHANGED <<opens, okOpens, firstOpened>>
    /\ DbFrame

\* hctx.go:102-105
OpenDB ==
    /\ opc = "db.DB"
    /\ \E ok \in BOOLEAN :
         /\ Ran("db.DB", ok)
         /\ IF ok
            THEN opc' = "Ping" /\ UNCHANGED opened
            ELSE /\ opened' = OpenResult("nil", "failed to get DB from gorm")
                 /\ opc' = "idle"
    /\ UNCHANGED <<dbFile, opens, okOpens, firstOpened>>
    /\ DbFrame

\* a bug: the result of the ping is not looked at
OpenPingIgnored ==
    /\ opc = "Ping"
    /\ \E ok \in BOOLEAN : Ran("Ping", ok)
    /\ opc' = "AutoMigrate"
    /\ UNCHANGED <<dbFile, opened, opens, okOpens, firstOpened>>
    /\ DbFrame

\* hctx.go:107-109
OpenPing ==
    /\ opc = "Ping"
    /\ \E ok \in BOOLEAN :
         /\ Ran("Ping", ok)
         /\ IF ok
            THEN opc' = "AutoMigrate" /\ UNCHANGED opened
            ELSE /\ opened' = OpenResult("nil", "failed to ping DB")
                 /\ opc' = "idle"
    /\ UNCHANGED <<dbFile, opens, okOpens, firstOpened>>
    /\ DbFrame

\* hctx.go:110: db.AutoMigrate, its error dropped
OpenAutoMigrate ==
    /\ opc = "AutoMigrate"
    /\ \E ok \in BOOLEAN :
         /\ Ran("AutoMigrate", ok)
         /\ dbFile' = IF ok THEN AutoMigrate(dbFile) ELSE dbFile
    /\ opc' = "PRAGMA"
    /\ UNCHANGED <<opened, opens, okOpens, firstOpened>>
    /\ DbFrame

\* hctx.go:111: PRAGMA journal_mode = WAL, its error dropped
OpenPragma ==
    /\ opc = "PRAGMA"
    /\ \E ok \in BOOLEAN :
         /\ Ran("PRAGMA", ok)
         /\ dbFile' = IF ok THEN [dbFile EXCEPT !.journal = "wal"] ELSE dbFile
    /\ opc' = "CREATE INDEX"
    /\ UNCHANGED <<opened, opens, okOpens, firstOpened>>
    /\ DbFrame

\* hctx.go:112: CREATE INDEX IF NOT EXISTS end_time_index, its error dropped
OpenCreateIndex ==
    /\ opc = "CREATE INDEX"
    /\ \E engineOk \in BOOLEAN :
         LET ok == engineOk /\ ~CreateIndexFails(dbFile, EndTimeIndex) IN
         /\ Ran("CREATE INDEX", ok)
         /\ dbFile' = IF ok THEN CreateIndexIfNotExists(dbFile, EndTimeIndex)
                      ELSE dbFile
    /\ opc' = "return"
    /\ UNCHANGED <<opened, opens, okOpens, firstOpened>>
    /\ DbFrame

\* hctx.go:113: return db, nil
OpenReturn ==
    /\ opc = "return"
    /\ opened' = OpenResult("db", "nil")
    /\ okOpens' = okOpens + 1
    /\ firstOpened' = IF okOpens = 0 THEN dbFile ELSE firstOpened
    /\ opc' = "idle"
    /\ UNCHANGED <<dbFile, stepsRun, opens>>
    /\ DbFrame

InitDb ==
    /\ StoreUnused
    /\ LoggerUnused
    /\ CarrierUnused
    /\ dbFile \in Datastores
    /\ opc = "idle"
    /\ opened = NotOpened
    /\ stepsRun = <<>>
    /\ opens = 0
    /\ okOpens = 0
    /\ firstOpened = NoDatastore

NextDb ==
    \/ OpenStart
    \/ OpenGetLogger
    \/ OpenConnect
    \/ OpenDB
    \/ OpenPing
    \/ OpenAutoMigrate
    \/ OpenPragma
    \/ OpenCreateIndex
    \/ OpenReturn

SpecDb == InitDb /\ [][NextDb]_vars

(***************************************************************************)
(* The carrier, hctx.go:24-33 and 140-174: context.WithValue allocates a   *)
(* frame that points to its parent; ctx.Value(key) walks from a frame to   *)
(* context.Background() and returns the value of the first frame whose key *)
(* is equal, or nil.  A value is held as an interface: its dynamic type    *)
(* and the value itself, so that a nil *gorm.DB is not a nil interface.    *)
(***************************************************************************)
contextConfigKey == [type |-> "hishtoryContextKey", name |-> "config"]

\* a bug: the datastore's key equal to the config's
contextDBKeyShared == [type |-> "hishtoryContextKey", name |-> "config"]

contextDBKey == [type |-> "hishtoryContextKey", name |-> "db"]

contextHomedirKey == [type |-> "hishtoryContextKey", name |-> "homedir"]

\* a bug: the value is stored in the frame of the parent, when it has one
WithValueInPlace(parent, key, val) ==
    IF parent = 0
    THEN heap' = Append(heap, [parent |-> parent, key |-> key, val |-> val])
    ELSE heap' = Append([heap EXCEPT ![parent].key = key,
                                     ![parent].val = val],
                        heap[parent])

\* context.WithValue(parent, key, val): the new carrier is Len(heap')
WithValue(parent, key, val) ==
    heap' = Append(heap, [parent |-> parent, key |-> key, val |-> val])

\* the other packages call the With functions on the carriers they hold
Called(c) ==
    /\ c \in 0..Len(heap)
    /\ Len(heap) < MaxFrames
    /\ UNCHANGED <<mpc, ctx, homedir, walk, out, cfgVars, logVars, dbVars>>

\* hctx.go:140-142
WithConf(c, config) ==
    /\ Called(c)
    /\ WithValue(c, contextConfigKey, [type |-> "ClientConfig", v |-> config])

\* hctx.go:152-154
WithDb(c, db) ==
    /\ Called(c)
    /\ WithValue(c, contextDBKey, [type |-> "*gorm.DB", v |-> db])

\* hctx.go:164-166
WithHome(c, dir) ==
    /\ Called(c)
    /\ WithValue(c, contextHomedirKey, [type |-> "string", v |-> dir])

\* a getter is called on carrier c and starts to look for its key
Lookup(op, c, key, type) ==
    /\ walk.pc = "idle"
    /\ c \in 0..Len(heap)
    /\ walk' = [pc |-> "Value", op |-> op, key |-> key, type |-> type,
                from |-> c, at |-> c]
    /\ out' = [op |-> "none"]
    /\ UNCHANGED <<heap, mpc, ctx, homedir, cfgVars, logVars, dbVars>>

\* hctx.go:144-145
GetConf(c) == Lookup("GetConf", c, contextConfigKey, "ClientConfig")

\* hctx.go:156-157
GetDb(c) == Lookup("GetDb", c, contextDBKey, "*gorm.DB")

\* hctx.go:168-169
GetHome(c) == Lookup("GetHome", c, contextHomedirKey, "string")

\* a bug: the lookup stops at the first frame, whatever its key
ValueFirstFrame ==
    /\ walk.pc = "Value"
    /\ walk' = [walk EXCEPT
                  !.pc = "v",
                  !.at = IF walk.at = 0 THEN [type |-> "nil"]
                         ELSE heap[walk.at].val]
    /\ UNCHANGED <<heap, mpc, ctx, homedir, out, cfgVars, logVars, dbVars>>

\* ctx.Value(key): one frame of the walk; at the end walk.at is the value
Value ==
    /\ walk.pc = "Value"
    /\ walk' = IF walk.at = 0
               THEN [walk EXCEPT !.pc = "v", !.at = [type |-> "nil"]]
               ELSE IF heap[walk.at].key = walk.key
               THEN [walk EXCEPT !.pc = "v", !.at = heap[walk.at].val]
               ELSE [walk EXCEPT !.at = heap[walk.at].parent]
    /\ UNCHANGED <<heap, mpc, ctx, homedir, out, cfgVars, logVars, dbVars>>

\* hctx.go:146-149, 158-161, 170-173: return the value, or panic on nil;
\* the type assertion panics on a value of another type
GetReturn ==
    /\ walk.pc = "v"
    /\ out' = IF walk.at.type = walk.type
              THEN [op |-> walk.op, from |-> walk.from, panicked |-> FALSE,
                    v |-> walk.at.v]
              ELSE [op |-> walk.op, from |-> walk.from, panicked |-> TRUE,
                    v |-> "none"]
    /\ walk' = [pc |-> "idle"]
    /\ UNCHANGED <<heap, mpc, ctx, homedir, cfgVars, logVars, dbVars>>

InitCarrier ==
    StoreUnused /\ LoggerUnused /\ DatastoreUnused /\ CarrierUnused

NextCarrier ==
    \/ \E c \in 0..MaxFrames :
         \/ \E config \in {ZeroConfig, FullConfig} : WithConf(c, config)
         \/ \E db \in {"db", "nil"} : WithDb(c, db)
         \/ WithHome(c, <<"/home/user">>)
         \/ GetConf(c)
         \/ GetDb(c)
         \/ GetHome(c)
    \/ Value
    \/ GetReturn

SpecCarrier == InitCarrier /\ [][NextCarrier]_vars

(***************************************************************************)
(* MakeContext, hctx.go:116-138.  Its calls of GetConfig and of            *)
(* OpenLocalSqliteDb are the actions of these functions, taken by process  *)
(* 1; MakeContext goes on when the call has returned.                      *)
(***************************************************************************)
\* what the configuration path holds that json.Unmarshal rejects: an empty
\* file, a record cut short, an array, a number where a bool is due, text
\* after the record
MalformedContents ==
    { <<>>,
      SubSeq(Marshal(FullConfig), 1, Len(Marshal(FullConfig)) - 1),
      <<"[", "]">>,
      <<"{", DQ, "is_enabled", DQ, ":", "1", "}">>,
      Marshal(ZeroConfig) \o <<"}">> }

\* hctx.go:117: ctx := context.Background()
MakeContextStart ==
    /\ mpc = "idle"
    /\ mpc' = "GetConfig"
    /\ ctx' = 0
    /\ UNCHANGED <<heap, homedir, walk, out, cfgVars, logVars, dbVars>>

\* a bug: a config that cannot be loaded is replaced by the zero config
MakeContextConfLenient ==
    /\ mpc = "GetConfig" /\ ret.op = "GetConfig"
    /\ WithValue(ctx, contextConfigKey,
                 [type |-> "ClientConfig", v |-> ret.config])
    /\ ctx' = Len(heap) + 1
    /\ mpc' = "OpenLocalSqliteDb"
    /\ UNCHANGED <<homedir, walk, out, cfgVars, logVars, dbVars>>

\* hctx.go:119-123: GetConfig has returned; panic, or bind the config
MakeContextConf ==
    /\ mpc = "GetConfig" /\ ret.op = "GetConfig"
    /\ IF ret.err # "nil"
       THEN mpc' = "panicked" /\ UNCHANGED <<heap, ctx>>
       ELSE /\ WithValue(ctx, contextConfigKey,
                         [type |-> "ClientConfig", v |-> ret.config])
            /\ ctx' = Len(heap) + 1
            /\ mpc' = "OpenLocalSqliteDb"
    /\ UNCHANGED <<homedir, walk, out, cfgVars, logVars, dbVars>>

\* hctx.go:125-129: OpenLocalSqliteDb has returned or panicked; panic, or
\* bind the handle
MakeContextDb ==
    /\ mpc = "OpenLocalSqliteDb"
    /\ opc = "panicked" \/ (opc = "idle" /\ opened.op = "Open")
    /\ IF opc = "panicked" \/ opened.err # "nil"
       THEN mpc' = "panicked" /\ UNCHANGED <<heap, ctx>>
       ELSE /\ WithValue(ctx, contextDBKey,
                         [type |-> "*gorm.DB", v |-> opened.db])
            /\ ctx' = Len(heap) + 1
            /\ mpc' = "UserHomeDir"
    /\ UNCHANGED <<homedir, walk, out, cfgVars, logVars, dbVars>>

\* hctx.go:131-137: os.UserHomeDir; panic, or bind the directory and return
MakeContextHome ==
    /\ mpc = "UserHomeDir"
    /\ \E homeOk \in BOOLEAN :
         IF ~homeOk
         THEN /\ homedir' = "HOME is not defined"
              /\ mpc' = "panicked"
              /\ UNCHANGED <<heap, ctx>>
         ELSE /\ homedir' = "/home/user"
              /\ WithValue(ctx, contextHomedirKey,
                           [type |-> "string", v |-> "/home/user"])
              /\ ctx' = Len(heap) + 1
              /\ mpc' = "returned"
    /\ UNCHANGED <<walk, out, cfgVars, logVars, dbVars>>

\* the machine MakeContext starts on: no config file, a saved config, or a
\* file that is no record; no datastore, an old one, or a current one
InitCtx ==
    /\ \/ dirExists = FALSE /\ fs = <<>>
       \/ /\ dirExists = TRUE
          /\ \E bytes \in MalformedContents \cup {Marshal(FullConfig)} :
               fs = WriteTo(<<>>, ConfigPath, bytes)
    /\ lastRenamed = NoConfig
    /\ pc = [p \in Procs |-> "idle"]
    /\ loc = [p \in Procs |-> NoLocals]
    /\ ret = NoResult
    /\ uuidsDrawn = 0
    /\ interrupted = FALSE
    /\ calls = 0
    /\ crashes = 0
    /\ inputs = {}
    /\ budget = 1
    /\ LoggerUnused
    /\ CarrierUnused
    /\ dbFile \in Datastores
    /\ opc = "idle"
    /\ opened = NotOpened
    /\ stepsRun = <<>>
    /\ opens = 0
    /\ okOpens = 0
    /\ firstOpened = NoDatastore

NextCtx ==
    \/ MakeContextStart
    \/ /\ mpc = "GetConfig"
       /\ GetConfigRead(1) \/ GetConfigReadDir(1)
       /\ Scenario
    \/ MakeContextConf
    \/ /\ mpc = "OpenLocalSqliteDb"
       /\ opc # "panicked" /\ opened.op # "Open"
       /\ \/ OpenStart
          \/ OpenGetLogger
          \/ OpenConnect
          \/ OpenDB
          \/ OpenPing
          \/ OpenAutoMigrate
          \/ OpenPragma
          \/ OpenCreateIndex
          \/ OpenReturn
    \/ MakeContextDb
    \/ MakeContextHome

SpecCtx == InitCtx /\ [][NextCtx]_vars

(***************************************************************************)
(* The claims about the configuration store.                               *)
(***************************************************************************)
ValidString(str) == \A i \in 1..Len(str) : str[i] # "xFF"

\* a config whose strings are all valid UTF-8
ValidConfig(c) ==
    /\ \A i \in 1..Len(FieldNames) :
         FieldTypes[i] = "string" => ValidString(c[FieldNames[i]])
    /\ \A i \in 1..SliceLen(c.DisplayedColumns) :
         ValidString(c.DisplayedColumns.elems[i])
    /\ \A i \in 1..SliceLen(c.CustomColumns) :
         /\ ValidString(c.CustomColumns.elems[i].ColumnName)
         /\ ValidString(c.CustomColumns.elems[i].ColumnCommand)

\* what a load of saved config r is to return: r, with the default columns
\* for an empty DisplayedColumns and the default pattern for an empty
\* TimestampFormat
ExpectedLoad(r) ==
    [r EXCEPT
       !.DisplayedColumns =
           IF SliceLen(r.DisplayedColumns) = 0
           THEN DefaultDisplayedColumns ELSE r.DisplayedColumns,
       !.TimestampFormat =
           IF r.TimestampFormat = <<>>
           THEN DefaultTimestampFormat ELSE r.TimestampFormat]

SaveSteps == {"WriteFile", "Write", "Rename"}

\* C1: at every point of every execution, whatever the interleaving of the
\* processes' Saves and Loads and wherever a process is killed, the
\* configuration path is absent or holds the complete serialized form of one
\* record: the one last saved (the old record until a Save's rename, the new
\* record from then on), never a part of one; and what a reader has read is
\* one complete record.
AtomicReplace ==
    /\ IF ConfigPath \in DOMAIN fs
       THEN lastRenamed.present
            /\ fs[ConfigPath] = Marshal(lastRenamed.config)
       ELSE ~lastRenamed.present
    /\ ret.op = "GetConfig" => ret.err # "failed to parse config file"

\* a reader returns a record while a Save of another record has written a
\* part of its data
AtomicReplaceWitness ==
    /\ ret.op = "GetConfig" /\ ret.err = "nil"
    /\ \E p \in Procs :
         /\ pc[p] = "Write"
         /\ 0 < loc[p].written /\ loc[p].written < Len(loc[p].data)
         /\ loc[p].config # lastRenamed.config

\* C2: a Load made after a Save was interrupted between the creation of its
\* temporary file and the completion of its rename returns the prior record
\* (with the load-time defaults), or fails with the error of a missing file
\* when there is no prior record; it never fails to parse and never returns
\* a record parsed from a part of the data.  (A Load whose own system calls
\* fail, for want of a permission or of HOME, returns that failure.)
CrashSafeLoad ==
    (ret.op = "GetConfig" /\ ret.afterInterrupt /\ ~ret.faulted) =>
        IF ret.seen.present
        THEN ret.err = "nil" /\ ret.config = ExpectedLoad(ret.seen.config)
        ELSE /\ ret.err \in
                  {"failed to read config file (files in HISHTORY_PATH)",
                   "failed to read config file (and failed to list too)"}
             /\ ret.errno = "ENOENT"

\* a Load returns the prior record while the interrupted Save's temporary
\* file, with a part of another record, lies in the directory
CrashSafeLoadWitness ==
    /\ ret.op = "GetConfig" /\ ret.afterInterrupt /\ ret.err = "nil"
    /\ \E f \in DOMAIN fs :
         /\ f # ConfigPath
         /\ Len(fs[f]) < Len(Marshal(EmptySlicesConfig))
         /\ fs[f] = SubSeq(Marshal(EmptySlicesConfig), 1, Len(fs[f]))

\* a Load fails with the missing-file error after a Save was interrupted
CrashSafeLoadMissingWitness ==
    /\ ret.op = "GetConfig" /\ ret.afterInterrupt /\ ~ret.faulted
    /\ ret.err = "failed to read config file (files in HISHTORY_PATH)"

\* C3: concurrent Saves stage to distinct temporary files; every step of a
\* Save in progress can be taken whatever the other processes are doing; and
\* when no Save is in progress the configuration path holds exactly the
\* record of the Save whose rename came last, whole.
ConcurrentSaves ==
    /\ \A p, q \in Procs :
         (p # q /\ pc[p] \in SaveSteps /\ pc[q] \in SaveSteps)
             => loc[p].path # loc[q].path
    /\ \A p \in Procs :
         /\ pc[p] = "WriteFile" => ENABLED WriteFileOpen(p)
         /\ pc[p] = "Write" => ENABLED WriteFileWrite(p)
         /\ pc[p] = "Rename" => ENABLED Rename(p)
    /\ ((\A p \in Procs : pc[p] \notin SaveSteps) /\ lastRenamed.present)
           => fs[ConfigPath] = Marshal(lastRenamed.config)

\* a Save has just returned while the Save of another record, whose data is
\* written, waits to rename: the two overlapped
ConcurrentSavesWitness ==
    /\ ret.op = "SetConfig" /\ ret.err = "nil"
    /\ \E p \in Procs :
         /\ p # ret.proc
         /\ pc[p] = "Rename"
         /\ loc[p].config # lastRenamed.config

\* C5: a Load that reads the file a Save of valid record r left returns r
\* in every field, except that an empty DisplayedColumns is replaced by the
\* default columns and an empty TimestampFormat by the default pattern.
RoundTrip ==
    (ret.op = "GetConfig" /\ ret.seen.present /\ ValidConfig(ret.seen.config))
        => (ret.faulted
            \/ (ret.err = "nil" /\ ret.config = ExpectedLoad(ret.seen.config)))

\* a Load returns a record saved in this run, with empty and negative fields
RoundTripWitness ==
    /\ ret.op = "GetConfig" /\ ret.err = "nil"
    /\ uuidsDrawn > 0
    /\ ret.seen = SomeConfig(EmptySlicesConfig)
    /\ ret.config.MissedUploadTimestamp = -3
    /\ ret.config.CustomColumns = MakeSlice(<<>>)

\* C6: every record a successful Load returns has DisplayedColumns and
\* TimestampFormat not empty, whatever calls came before; and the defaults
\* are not in the file: when SetConfig or InitConfig has returned nil, a
\* record saved with these fields empty is stored with them empty.
DefaultsAtLoadOnly ==
    /\ (ret.op = "GetConfig" /\ ret.err = "nil") =>
          /\ SliceLen(ret.config.DisplayedColumns) > 0
          /\ ret.config.TimestampFormat # <<>>
    /\ (ret.op \in {"SetConfig", "InitConfig"} /\ ret.err = "nil") =>
          LET stored == Unmarshal(fs[ConfigPath]).config
              saved == lastRenamed.config
          IN  /\ SliceLen(saved.DisplayedColumns) = 0
                   => stored.DisplayedColumns = saved.DisplayedColumns
              /\ saved.TimestampFormat = <<>>
                   => stored.TimestampFormat = <<>>

\* a Load returns the defaults for a file that InitConfig or SetConfig wrote
\* in this run with both fields empty
DefaultsAtLoadOnlyWitness ==
    /\ ret.op = "GetConfig" /\ ret.err = "nil"
    /\ uuidsDrawn > 0
    /\ ConfigPath \in DOMAIN fs
    /\ Unmarshal(fs[ConfigPath]).config.DisplayedColumns = MakeSlice(<<>>)
    /\ Unmarshal(fs[ConfigPath]).config.TimestampFormat = <<>>
    /\ ret.config.TimestampFormat = DefaultTimestampFormat

\* the record's DisplayedColumns was saved empty (nil, or with no element)
LoadedEmptyColumns ==
    /\ ret.op = "GetConfig" /\ ret.err = "nil"
    /\ ret.seen.present
    /\ SliceLen(ret.seen.config.DisplayedColumns) = 0

\* C7, as claimed: a Load of a record saved with empty DisplayedColumns
\* returns the list Hostname, CWD, Timestamp, Runtime, ExitCode, Command.
DefaultColumnsAsClaimed ==
    LoadedEmptyColumns =>
        ret.config.DisplayedColumns.elems =
            << <<"Hostname">>, <<"CWD">>, <<"Timestamp">>, <<"Runtime">>,
               <<"ExitCode">>, <<"Command">> >>

\* C7, amended: a Load of a record saved with empty DisplayedColumns returns
\* the list Hostname, CWD, Timestamp, Runtime, Exit Code, Command (the fifth
\* column is named "Exit Code", with a space), in this order.
DefaultColumnsExact ==
    LoadedEmptyColumns =>
        /\ ~ret.config.DisplayedColumns.isNil
        /\ ret.config.DisplayedColumns.elems =
              << <<"Hostname">>, <<"CWD">>, <<"Timestamp">>, <<"Runtime">>,
                 <<"Exit Code">>, <<"Command">> >>

\* a Load of a record that this run saved with empty DisplayedColumns
DefaultColumnsWitness == LoadedEmptyColumns /\ uuidsDrawn > 0

\* C8: InitConfig goes on to save only when the file does not exist, and
\* then saves the zero record, which a Load returns as IsEnabled = false with
\* the default columns and timestamp pattern; when the file exists it returns
\* nil and changes nothing; when the check of existence fails otherwise, it
\* returns that error and writes nothing.
InitIfAbsentSaved ==
    (ret.op = "InitConfig" /\ ret.err = "nil" /\ ret.errno = "ENOENT") =>
        /\ ConfigPath \in DOMAIN fs
        /\ fs[ConfigPath] = Marshal(ZeroConfig)
        /\ LET load == GetConfigOf(fs[ConfigPath])
           IN  /\ load.err = "nil"
               /\ load.config.IsEnabled = FALSE
               /\ load.config.DisplayedColumns = DefaultDisplayedColumns
               /\ load.config.TimestampFormat = DefaultTimestampFormat

InitIfAbsentStep ==
    \A p \in Procs :
      pc[p] = "idle" =>
        /\ pc'[p] = "SetConfig" =>
              /\ ConfigPath \notin DOMAIN fs
              /\ loc'[p].op = "InitConfig"
        /\ (pc'[p] = "idle" /\ ret'.proc = p /\ ret'.op = "InitConfig") =>
              /\ fs' = fs /\ dirExists' = dirExists
              /\ ret'.err = "nil" => ConfigPath \in DOMAIN fs
              /\ ret'.errno = "EACCES" => ret'.err = "EACCES"
              /\ (ConfigPath \in DOMAIN fs /\ ~ret'.faulted) => ret'.err = "nil"

InitIfAbsent == []InitIfAbsentSaved /\ [][InitIfAbsentStep]_vars

\* InitConfig found no file and has returned nil: the file is there, and a
\* Load of it returns IsEnabled = false
InitIfAbsentWitness ==
    /\ ret.op = "InitConfig" /\ ret.err = "nil" /\ ret.errno = "ENOENT"
    /\ GetConfigOf(fs[ConfigPath]).config.IsEnabled = FALSE

\* C15: when os.ReadFile of the configuration file fails, GetConfig returns
\* an error and the zero ClientConfig: the error "failed to read config file
\* (files in HISHTORY_PATH: ...)" with the names of the directory's entries
\* when the directory could be listed, and the distinct error "failed to read
\* config file (and failed to list too)" wrapping the listing's error when it
\* could not, as it cannot when the directory does not exist.
ReadErrorReturned ==
    (ret.op = "GetConfig" /\ ret.errno # "nil") =>
        /\ ret.config = ZeroConfig
        /\ ret.err \in
             {"failed to read config file (files in HISHTORY_PATH)",
              "failed to read config file (and failed to list too)"}
        /\ ret.err = "failed to read config file (files in HISHTORY_PATH)" =>
              dirExists /\ ret.files = DOMAIN fs
        /\ ret.err = "failed to read config file (and failed to list too)" =>
              ret.files = {} /\ ret.wraps \in {"EACCES", "ENOENT"}
        /\ ~dirExists =>
              /\ ret.err = "failed to read config file (and failed to list too)"
              /\ ret.wraps = "ENOENT"

\* the read failed and the error lists the directory, a staged file of an
\* unfinished SetConfig among its entries
ReadErrorReturnedWitness ==
    /\ ret.op = "GetConfig" /\ ret.errno # "nil"
    /\ ret.err = "failed to read config file (files in HISHTORY_PATH)"
    /\ \E f \in ret.files : f # ConfigPath

\* the read failed and the listing failed, in a directory that exists
ReadErrorListFailedWitness ==
    /\ ret.op = "GetConfig" /\ ret.errno # "nil" /\ dirExists
    /\ ret.err = "failed to read config file (and failed to list too)"

\* what is at the configuration path: nothing, or the bytes of the file
ConfigContent(f) == IF ConfigPath \in DOMAIN f THEN <<f[ConfigPath]>> ELSE <<>>

\* C17: the only step of SetConfig that changes what is at the configuration
\* path is the rename that succeeds, with which the call returns nil; so
\* when SetConfig (called by InitConfig too) returns an error, whichever step
\* failed, the content at the configuration path is what it was before the
\* call.
SaveErrorKeepsStep ==
    ConfigContent(fs') # ConfigContent(fs) =>
        \E p \in Procs :
            /\ pc[p] = "Rename" /\ pc'[p] = "idle"
            /\ ret'.proc = p
            /\ ret'.op \in {"SetConfig", "InitConfig"}
            /\ ret'.err = "nil"
            /\ ConfigContent(fs') = <<loc[p].data>>

SaveErrorKeeps == [][SaveErrorKeepsStep]_vars

\* SetConfig has returned the error of the rename; the earlier config is at
\* the configuration path and the staged file of the new one beside it
SaveErrorKeepsWitness ==
    /\ ret.op = "SetConfig"
    /\ ret.err = "failed to replace config file with the updated version"
    /\ ConfigContent(fs) = <<Marshal(FullConfig)>>
    /\ \E f \in DOMAIN fs :
         f # ConfigPath /\ fs[f] = Marshal(EmptySlicesConfig)

\* C18: the rename that ends InitConfig's save of the zero config is made
\* only onto a configuration path that holds no file: InitConfig replaces no
\* config that a SetConfig of another process has put there since InitConfig
\* looked.
InitKeepsSavedStep ==
    \A p \in Procs :
        (pc[p] = "Rename" /\ loc[p].op = "InitConfig"
           /\ pc'[p] = "idle" /\ ret'.proc = p
           /\ ret'.op = "InitConfig" /\ ret'.err = "nil") =>
            ConfigPath \notin DOMAIN fs

InitKeepsSaved == [][InitKeepsSavedStep]_vars

(***************************************************************************)
(* The claims about the log sink.                                          *)
(***************************************************************************)
FullyConfigured ==
    [formatter |-> "TextFormatter{RFC3339, FullTimestamp}",
     level |-> "InfoLevel", output |-> "lumberjack"]

\* the construction body panicked: the once is spent, or about to be, and
\* no Logger was assigned
ConstructionFailed ==
    /\ hishtoryLogger = "nil"
    /\ onceDone = 1 \/ \E t \in Threads : tpc[t] = "panicking"

\* C4: however many goroutines call GetLogger at once, the construction
\* body runs exactly once, a caller that arrives during the construction
\* does not leave GetLogger before it is complete, and every caller that
\* returns holds the one fully constructed Logger, never a nil or a
\* partially configured one.
OnceConstruction ==
    /\ constructions <= 1
    /\ \A t \in Threads :
         tpc[t] = "return" =>
            /\ constructions = 1
            /\ onceDone = 1
            /\ hishtoryLogger = "logger"
            /\ logger = FullyConfigured
    /\ \A t \in Threads :
         (got[t].called /\ ~got[t].panicked) =>
            /\ got[t].pointer = "logger"
            /\ got[t].logger = FullyConfigured

\* the same, for the runs in which the construction body does not panic
OnceConstructionUnlessFailed == ConstructionFailed \/ OnceConstruction

\* two goroutines have both returned from GetLogger with the same complete
\* Logger
OnceConstructionShared ==
    \A t \in Threads :
        /\ got[t].called
        /\ got[t].pointer = "logger"
        /\ got[t].logger = FullyConfigured

\* C19: every call of GetLogger that returns to its caller returns a
\* non-nil Logger with formatter, level and output set, also a call made
\* after a call whose construction body panicked.
EveryGetConfigured ==
    \A t \in Threads :
        (got[t].called /\ ~got[t].panicked) =>
            got[t].pointer # "nil" /\ got[t].logger = FullyConfigured

\* a call of GetLogger returned nil after the construction body had panicked
GetAfterFailedConstruction ==
    /\ ConstructionFailed
    /\ \E t \in Threads :
         got[t].called /\ ~got[t].panicked /\ got[t].pointer = "nil"

(***************************************************************************)
(* The claims about the datastore.                                         *)
(***************************************************************************)
BootstrapSteps == {"gorm.Open", "Ping", "AutoMigrate", "CREATE INDEX"}

StepFailed(steps) ==
    \E i \in 1..Len(stepsRun) :
        stepsRun[i].step \in steps /\ ~stepsRun[i].ok

Returned == opc = "idle" /\ opened.op = "Open"

EndTimeIndexes(file) ==
    Cardinality({i \in 1..Len(file.indexes) :
                    file.indexes[i].column = "end_time"})

\* C9: when opening the connection, the ping, the schema migration or the
\* creation of the end-time index fails, OpenLocalSqliteDb returns an error;
\* no step runs twice within one call.
FailuresReturned ==
    /\ (Returned /\ StepFailed(BootstrapSteps)) => opened.err # "nil"
    /\ \A i, j \in 1..Len(stepsRun) :
         stepsRun[i].step = stepsRun[j].step => i = j

\* the failures the code does hand back, and the absence of retries
CheckedFailuresReturned ==
    /\ (Returned /\ StepFailed({"gorm.Open", "db.DB", "Ping"})) =>
           /\ opened.err # "nil"
           /\ opened.db = "nil"
    /\ \A i, j \in 1..Len(stepsRun) :
         stepsRun[i].step = stepsRun[j].step => i = j

\* C10: a call of OpenLocalSqliteDb in which no step fails succeeds, the
\* second in a row as the first, and after every call that succeeded the
\* file holds exactly one index on end_time and the schema the first
\* successful call left.
IdempotentOpen ==
    /\ (Returned /\ ~StepFailed(BootstrapSteps \cup {"db.DB", "PRAGMA"})) =>
           opened.err \in {"nil", "failed to get user's home directory",
                           "failed to make hishtory dir"}
    /\ (Returned /\ opened.err = "nil") =>
           /\ EndTimeIndexes(dbFile) = 1
           /\ dbFile.columns = firstOpened.columns

\* the same, for the calls in which no dropped error occurred
IdempotentOpenUnlessDropped ==
    (Returned /\ opened.err = "nil"
       /\ ~StepFailed({"AutoMigrate", "PRAGMA", "CREATE INDEX"})) =>
        /\ EndTimeIndexes(dbFile) = 1
        /\ dbFile.columns = HistoryEntryColumns
        /\ dbFile.journal = "wal"

\* the place of a step among the steps the call has run, 0 if it has not
StepAt(step) ==
    IF \E i \in 1..Len(stepsRun) : stepsRun[i].step = step
    THEN CHOOSE i \in 1..Len(stepsRun) : stepsRun[i].step = step
    ELSE 0

\* C16: OpenLocalSqliteDb pings after gorm.Open has succeeded and before the
\* migration and the creation of the index, which run only after a ping
\* that succeeded; when the ping fails the call returns the error "failed to
\* ping DB" and a nil handle, and runs neither.
PingBeforeMigration ==
    /\ StepAt("Ping") # 0 =>
          /\ StepAt("gorm.Open") # 0 /\ StepAt("gorm.Open") < StepAt("Ping")
          /\ stepsRun[StepAt("gorm.Open")].ok
    /\ \A step \in {"AutoMigrate", "CREATE INDEX"} :
          StepAt(step) # 0 =>
             /\ StepAt("Ping") # 0 /\ StepAt("Ping") < StepAt(step)
             /\ stepsRun[StepAt("Ping")].ok
    /\ StepFailed({"Ping"}) =>
          /\ opc = "idle"
          /\ opened = [op |-> "Open", db |-> "nil", err |-> "failed to ping DB"]
          /\ stepsRun[Len(stepsRun)].step = "Ping"

\* a call has returned the ping's failure, on a datastore without its index
PingBeforeMigrationWitness ==
    /\ Returned /\ StepFailed({"Ping"})
    /\ opened.err = "failed to ping DB"
    /\ dbFile.indexes = <<>>

(***************************************************************************)
(* The claims about the carrier.                                           *)
(***************************************************************************)
\* the kind of value a getter is for
KindOf(op) ==
    CASE op = "GetConf" -> "ClientConfig"
      [] op = "GetDb" -> "*gorm.DB"
      [] op = "GetHome" -> "string"

RECURSIVE Nearest(_, _, _)
\* the value of the nearest frame of carrier c in h that binds kind, if
\* there is one
Nearest(h, c, kind) ==
    IF c = 0 THEN [found |-> FALSE]
    ELSE IF h[c].val.type = kind THEN [found |-> TRUE, v |-> h[c].val.v]
    ELSE Nearest(h, h[c].parent, kind)

\* the last getter came to what carrier c in h holds for its kind: the
\* value, or a panic when there is none
CameTo(h, c) ==
    IF Nearest(h, c, KindOf(out.op)).found
    THEN ~out.panicked /\ out.v = Nearest(h, c, KindOf(out.op)).v
    ELSE out.panicked

\* a getter has returned or panicked on a carrier
GotFrom(c) == out.op # "none" /\ out.from = c

\* C12: a With call changes no frame that exists and no carrier's bindings,
\* at whatever point of other calls it comes; so a getter on c0 comes to what
\* c0 held when it was made, whatever carriers were derived from it since,
\* and a getter on c1 = With(c0, K, v1) returns v1 whatever v2 a sibling
\* c2 = With(c0, K, v2) binds.
CarrierIsolationStep ==
    /\ Len(heap') >= Len(heap)
    /\ \A c \in 1..Len(heap) :
         /\ heap'[c] = heap[c]
         /\ \A kind \in {"ClientConfig", "*gorm.DB", "string"} :
              Nearest(heap', c, kind) = Nearest(heap, c, kind)

CarrierIsolationGot ==
    out.op # "none" =>
        /\ CameTo(SubSeq(heap, 1, out.from), out.from)
        /\ (out.from # 0 /\ heap[out.from].val.type = KindOf(out.op)) =>
               (~out.panicked /\ out.v = heap[out.from].val.v)

CarrierIsolation == []CarrierIsolationGot /\ [][CarrierIsolationStep]_vars

\* c1 and c2 bind different configs over context.Background(); GetConf(c1)
\* has returned the config of c1
CarrierIsolationWitness ==
    /\ Len(heap) = 2
    /\ heap[1].parent = 0 /\ heap[2].parent = 0
    /\ heap[1].val.type = "ClientConfig" /\ heap[2].val.type = "ClientConfig"
    /\ heap[1].val.v # heap[2].val.v
    /\ GotFrom(1) /\ out.op = "GetConf" /\ out.v = heap[1].val.v

\* C13: a getter returns the value of the nearest frame of the carrier that
\* binds its kind, the carrier's own frame first, and panics when no frame
\* of the chain binds it.
GetNearest ==
    out.op # "none" =>
        /\ CameTo(heap, out.from)
        /\ (out.from # 0 /\ heap[out.from].val.type = KindOf(out.op)) =>
               (~out.panicked /\ out.v = heap[out.from].val.v)
        /\ (\A c \in 1..Len(heap) : heap[c].val.type # KindOf(out.op)) =>
               out.panicked

\* GetConf has returned the config of a carrier whose parent binds another
\* config
GetNearestWitness ==
    /\ out.op = "GetConf" /\ out.from = 2 /\ ~out.panicked
    /\ heap[2].parent = 1
    /\ heap[1].val.type = "ClientConfig"
    /\ heap[1].val.v # out.v

\* a getter has panicked on a carrier that binds another kind only
GetNearestPanicWitness ==
    /\ out.op = "GetDb" /\ out.from = 1 /\ out.panicked
    /\ heap[1].val.type = "ClientConfig"

\* C20: on a carrier made by the With of one kind, the getter of another
\* kind comes to what the parent holds for that kind: the same value, or the
\* same panic.
KindsIndependent ==
    (out.op # "none" /\ out.from # 0
       /\ heap[out.from].val.type # KindOf(out.op)) =>
        CameTo(heap, heap[out.from].parent)

\* GetConf on WithDb(WithConf(context.Background(), config), db) has
\* returned config
KindsIndependentWitness ==
    /\ out.op = "GetConf" /\ out.from = 2 /\ ~out.panicked
    /\ heap[2].parent = 1
    /\ heap[2].val.type = "*gorm.DB"
    /\ heap[1].val = [type |-> "ClientConfig", v |-> out.v]

(***************************************************************************)
(* The claims about MakeContext.                                           *)
(***************************************************************************)
Loaded == ret.op = "GetConfig" /\ pc[1] = "idle"

OpenEnded == opc = "panicked" \/ (opc = "idle" /\ opened.op = "Open")

OpenFailed == opc = "panicked" \/ (OpenEnded /\ opened.err # "nil")

\* C11: MakeContext calls GetConfig, then OpenLocalSqliteDb, then
\* os.UserHomeDir, each after the one before has returned without error;
\* when one of them fails MakeContext panics, the later ones are not called
\* and no carrier is returned; the carrier it returns is three frames over
\* context.Background(), which bind the config GetConfig returned, the handle
\* OpenLocalSqliteDb returned and the home directory, each once.
MakeContextOrder ==
    /\ mpc \in {"idle", "GetConfig"} =>
          opens = 0 /\ homedir = "unresolved" /\ heap = <<>>
    /\ mpc = "OpenLocalSqliteDb" =>
          Loaded /\ ret.err = "nil" /\ homedir = "unresolved"
    /\ mpc = "UserHomeDir" =>
          /\ Loaded /\ ret.err = "nil"
          /\ OpenEnded /\ ~OpenFailed
          /\ homedir = "unresolved"
    /\ (Loaded /\ ret.err # "nil") =>
          /\ mpc \in {"GetConfig", "panicked"}
          /\ opens = 0 /\ homedir = "unresolved" /\ heap = <<>>
    /\ OpenFailed =>
          /\ mpc \in {"OpenLocalSqliteDb", "panicked"}
          /\ homedir = "unresolved" /\ Len(heap) = 1
    /\ homedir = "HOME is not defined" => mpc = "panicked" /\ Len(heap) = 2
    /\ mpc = "panicked" =>
          \/ Loaded /\ ret.err # "nil"
          \/ OpenFailed
          \/ homedir = "HOME is not defined"
    /\ mpc = "returned" =>
          /\ Loaded /\ ret.err = "nil"
          /\ OpenEnded /\ ~OpenFailed
          /\ ctx = 3
          /\ heap =
               << [parent |-> 0, key |-> [type |-> "hishtoryContextKey",
                                          name |-> "config"],
                   val |-> [type |-> "ClientConfig", v |-> ret.config]],
                  [parent |-> 1, key |-> [type |-> "hishtoryContextKey",
                                          name |-> "db"],
                   val |-> [type |-> "*gorm.DB", v |-> opened.db]],
                  [parent |-> 2, key |-> [type |-> "hishtoryContextKey",
                                          name |-> "homedir"],
                   val |-> [type |-> "string", v |-> homedir]] >>
          /\ opened.db # "nil" /\ homedir = "/home/user"

\* MakeContext has returned a carrier
MakeContextOrderWitness ==
    mpc = "returned" /\ ctx = 3 /\ heap[3].val.v = "/home/user"

\* MakeContext has panicked on a config that does not parse, before any
\* call of OpenLocalSqliteDb
MakeContextPanicWitness ==
    /\ mpc = "panicked" /\ ret.err = "failed to parse config file"
    /\ opens = 0

\* the configuration file was read, and what was read is no record
ReadMalformed ==
    /\ Loaded /\ ~ret.faulted /\ ret.errno = "nil"
    /\ ConfigPath \in DOMAIN fs
    /\ fs[ConfigPath] \in MalformedContents

\* C14: when the file at the configuration path is read and is not a
\* serialized record, GetConfig returns the error "failed to parse config
\* file" wrapping json.Unmarshal's error (a syntax error; a type error for
\* well-formed JSON of another shape) together with the zero ClientConfig,
\* not a nil error with a zero or default-filled config.
ParseErrorReturned ==
    ReadMalformed =>
        /\ ret.err = "failed to parse config file"
        /\ ret.wraps =
             IF fs[ConfigPath] \in
                  { <<"[", "]">>,
                    <<"{", DQ, "is_enabled", DQ, ":", "1", "}">> }
             THEN "UnmarshalTypeError" ELSE "SyntaxError"
        /\ ret.config = ZeroConfig

\* GetConfig has returned the parse error for a record cut short
ParseErrorReturnedWitness ==
    /\ ReadMalformed
    /\ Len(fs[ConfigPath]) = Len(Marshal(FullConfig)) - 1
    /\ ret.err = "failed to parse config file"

=============================================================================
